---- MODULE Spec2Model ----
(***************************************************************************)
(* Task-progress and block-synchronisation engine of the document          *)
(* translator front end (src/unnamed/part_000, lines 1-275).               *)
(*                                                                         *)
(* The page is a single-threaded event loop: every action below is one     *)
(* macrotask (a click handler up to its first await, an interval tick up   *)
(* to its await, a setTimeout callback, or the continuation that runs when *)
(* a fetch settles).  A request is in flight between the step that sends   *)
(* it and the step that delivers its response; the backend handles it when *)
(* it is sent, so a response delivered late carries an old snapshot.       *)
(***************************************************************************)
EXTENDS Integers, Sequences, FiniteSets, Bags, TLC

\* ------------------------------------------------------------------ bounds
MaxTasks == 2          \* tasks the backend will create
BlocksPerTask == 2     \* blocks the backend extracts from a document
MaxInflight == 2       \* requests in flight at once
MaxTimeouts == 2       \* pending setTimeout callbacks (plus polls that may add one)
MaxClicks == 4         \* clicks the user makes in one session
MaxClicksLong == 5     \* the same, in the longer sessions of SpecLong

\* ------------------------------------------------------------------ values
NULLTEXT == "<null>"                  \* JSON null in a text field
TypedText == {"u"}                     \* what the user can type into dstText

\* A JSON/JavaScript value of the `progress` field: a number (in thousandths, so
\* 1000 is the fraction 1), or one of the values that are not finite numbers.
Num(n) == [t |-> "number", v |-> n]

NotNum(t) == [t |-> t, v |-> 0]

ProgressInputs == {Num(500)}           \* progress values a status response carries

\* The progress values of the sessions that only poll (SpecProgress).
ProgressValues ==
    {Num(n) : n \in {-2000, -1, 0, 1, 4, 5, 14, 15, 499, 500, 994, 995, 999, 1000, 1001, 3000}}
    \cup {NotNum(t) : t \in {"NaN", "Infinity", "-Infinity", "null", "undefined"}}
ErrorInputs == {"", "boom"}            \* error field of a failed task's status ("" = absent)

VARIABLES
    currentTaskId,    \* part_000:4, 0 = null
    currentBlockId,   \* part_000:5, 0 = null
    pollTaskTimer,    \* part_000:7, 0 = null, 1 = a recorded interval handle
    pollBlocksTimer,  \* part_000:8
    blocksLoaded,     \* part_000:10
    blocksCache,      \* part_000:11
    dom,              \* the elements the code reads and writes, by element id
    intervals,        \* live setInterval timers of the window: [task, blocks]
    timeouts,         \* pending setTimeout(refreshBlocks(false), 300) callbacks
    net,              \* requests in flight: a bag, a response may overtake another
    server,           \* the backend: one [status, blocks] per created task
    dirty,            \* history: dstText was typed into and not saved or reloaded since
    fin,              \* history since the last click: 'finished' seen, fetches and polls
                      \* sent after it, a delayed refresh applied after it, 'error' seen
    clicks            \* clicks the user still makes in this session

vars == <<currentTaskId, currentBlockId, pollTaskTimer, pollBlocksTimer, blocksLoaded,
          blocksCache, dom, intervals, timeouts, net, server, dirty, fin, clicks>>

client == <<currentTaskId, currentBlockId, pollTaskTimer, pollBlocksTimer, blocksLoaded,
            blocksCache, dom, intervals, timeouts>>

\* ------------------------------------------------------------------ helpers
\* `v || ""` on a text field: null and "" both give "".
OrEmpty(v) == IF v = NULLTEXT \/ v = "" THEN "" ELSE v

\* setText(id, v): el.textContent = v
setText(d, id, v) == [d EXCEPT ![id] = v]

\* `t.progress ?? 0`: null and undefined give 0.
OrZero(x) == IF x.t \in {"null", "undefined"} THEN Num(0) ELSE x

\* Number.isFinite(p)
isFinite(x) == x.t = "number"

\* Mutant: no upper limit.
ClampLow(n) == IF n < 0 THEN 0 ELSE n

\* Math.max(0, Math.min(1, n)), in thousandths
Clamp01(n) == IF n < 0 THEN 0 ELSE IF n > 1000 THEN 1000 ELSE n

\* Math.round(val * 100), val in thousandths and not negative
RoundPct(val) == (val + 5) \div 10

\* setProgress(p, status): bar.value, progressPct and progressStatus
setProgress(d, p, status) ==
    LET val == Clamp01(IF isFinite(p) THEN p.v ELSE 0)
    IN  [d EXCEPT !.progressBar = val,
                  !.progressPct = RoundPct(val),
                  !.progressStatus = IF status # "" THEN <<"Status:", status>> ELSE <<>>]

\* stopPolling(): clear the recorded intervals and forget them.
stopPolling(T) ==
    [pt |-> 0, pb |-> 0,
     lt |-> IF T.pt # 0 THEN T.lt - 1 ELSE T.lt,
     lb |-> IF T.pb # 0 THEN T.lb - 1 ELSE T.lb]

\* Mutant: the intervals are set without stopPolling() first.
startPollingNoStop(T) == [pt |-> 1, pb |-> 1, lt |-> T.lt + 1, lb |-> T.lb + 1]

\* startPolling(): stopPolling(), then two fresh intervals, both recorded.
startPolling(T) ==
    LET S == stopPolling(T)
    IN  [pt |-> 1, pb |-> 1, lt |-> S.lt + 1, lb |-> S.lb + 1]

Timers == [pt |-> pollTaskTimer, pb |-> pollBlocksTimer,
           lt |-> intervals.task, lb |-> intervals.blocks]

SetTimers(T) ==
    /\ pollTaskTimer' = T.pt
    /\ pollBlocksTimer' = T.pb
    /\ intervals' = [task |-> T.lt, blocks |-> T.lb]

\* Mutant: only 'translated' counts as done.
DoneCountTranslated(blocks) ==
    Cardinality({i \in 1..Len(blocks) : blocks[i].status = "translated"})

\* blocks.filter(b => b.status === "translated" || b.status === "edited").length
DoneCount(blocks) ==
    Cardinality({i \in 1..Len(blocks) : blocks[i].status \in {"translated", "edited"}})

\* Mutant: the first entry of the list, whatever its id.
FindFirst(blocks, id) == IF Len(blocks) > 0 THEN 1 ELSE 0

\* blocks.find(x => x.id === id): the first match, 0 when there is none
FindIndex(blocks, id) ==
    IF \E i \in 1..Len(blocks) : blocks[i].id = id
    THEN CHOOSE i \in 1..Len(blocks) :
            /\ blocks[i].id = id
            /\ \A j \in 1..(i - 1) : blocks[j].id # id
    ELSE 0

\* A request in flight.
Msg(kind, task, block, text, keep, origin, status, body, ok) ==
    [kind |-> kind, task |-> task, block |-> block, text |-> text, keep |-> keep,
     origin |-> origin, status |-> status, body |-> body, ok |-> ok,
     savedTask |-> 0, latest |-> TRUE, progress |-> Num(0)]

Send(m) == net (+) SetToBag({m})

Take(m) == net (-) SetToBag({m})

InFlight(kind) ==
    BagCardinality([m \in {x \in BagToSet(net) : x.kind = kind} |-> net[m]])

\* One click of the user's, within the session's budget.
Click == clicks > 0 /\ clicks' = clicks - 1

\* `if (!currentTaskId) throw ...` of runTranslate, loadBlocks and exportDocx.
NoTask(task) == task = 0

\* Mutant: only the task is tested.
NoSelectionTaskOnly(task, block) == task = 0

\* `if (!currentTaskId || !currentBlockId) throw ...` of saveBlock.
NoSelection(task, block) == task = 0 \/ block = 0


\* ------------------------------------------------------------------ backend
\* The blocks the backend extracts from an uploaded document: ids unique across
\* tasks, order_no ascending, nothing translated yet.
NewBlocks(t) ==
    [k \in 1..BlocksPerTask |->
        [id |-> (t - 1) * BlocksPerTask + k, order_no |-> k, status |-> "pending",
         source_text |-> IF k = 1 THEN "src" ELSE NULLTEXT,
         translated_text |-> NULLTEXT]]

\* PATCH /api/tasks/{t}/blocks/{b} {translated_text}: the block becomes 'edited'.
PatchBlocks(blocks, b, text) ==
    [i \in 1..Len(blocks) |->
        IF blocks[i].id = b
        THEN [blocks[i] EXCEPT !.translated_text = text, !.status = "edited"]
        ELSE blocks[i]]

HasBlock(t, b) ==
    /\ t \in 1..Len(server)
    /\ \E i \in 1..Len(server[t].blocks) : server[t].blocks[i].id = b

\* The translator fills in one pending block of a running task.
SrvTranslate ==
    /\ \E t \in 1..Len(server) : \E i \in 1..BlocksPerTask :
          /\ server[t].status = "running"
          /\ server[t].blocks[i].status = "pending"
          /\ server' = [server EXCEPT ![t].blocks[i].status = "translated",
                                      ![t].blocks[i].translated_text = "T"]
    /\ UNCHANGED <<client, net, dirty, fin, clicks>>

\* A running task with nothing pending finishes.
SrvFinish ==
    /\ \E t \in 1..Len(server) :
          /\ server[t].status = "running"
          /\ \A i \in 1..BlocksPerTask : server[t].blocks[i].status # "pending"
          /\ server' = [server EXCEPT ![t].status = "finished"]
    /\ UNCHANGED <<client, net, dirty, fin, clicks>>

\* A running task fails.
SrvError ==
    /\ \E t \in 1..Len(server) :
          /\ server[t].status = "running"
          /\ server' = [server EXCEPT ![t].status = "error"]
    /\ UNCHANGED <<client, net, dirty, fin, clicks>>

\* ------------------------------------------------------------------ the user at the page
\* The user opens the editor of the selected block.
FocusDst ==
    /\ currentBlockId # 0
    /\ dom.active # "dstText"
    /\ dom' = [dom EXCEPT !.active = "dstText"]
    /\ UNCHANGED <<currentTaskId, currentBlockId, pollTaskTimer, pollBlocksTimer,
                   blocksLoaded, blocksCache, intervals, timeouts, net, server, dirty, fin, clicks>>

BlurDst ==
    /\ dom.active = "dstText"
    /\ dom' = [dom EXCEPT !.active = "other"]
    /\ UNCHANGED <<currentTaskId, currentBlockId, pollTaskTimer, pollBlocksTimer,
                   blocksLoaded, blocksCache, intervals, timeouts, net, server, dirty, fin, clicks>>

\* Keystrokes go to the focused input.
TypeDst ==
    /\ currentBlockId # 0
    /\ dom.active = "dstText"
    /\ \E v \in TypedText :
          /\ dom.dstText # v
          /\ dom' = [dom EXCEPT !.dstText = v]
    /\ dirty' = TRUE
    /\ UNCHANGED <<currentTaskId, currentBlockId, pollTaskTimer, pollBlocksTimer,
                   blocksLoaded, blocksCache, intervals, timeouts, net, server, fin, clicks>>

\* Mutant: the click leaves dstText as it is.
selectBlockKeepDst(d, b) ==
    setText([d EXCEPT !.srcText = OrEmpty(b.source_text)],
            "blockHint", <<"Selected block:", b.id>>)

\* div.onclick of a rendered list item: the closure holds the block it was built from.
selectBlock(d, b) ==
    setText([d EXCEPT !.srcText = OrEmpty(b.source_text),
                      !.dstText = OrEmpty(b.translated_text)],
            "blockHint", <<"Selected block:", b.id>>)

ItemClick ==
    /\ Click
    /\ \E i \in 1..Len(dom.blockList) :
          /\ currentBlockId' = dom.blockList[i].id
          /\ dom' = selectBlock(dom, dom.blockList[i])
    /\ dirty' = FALSE
    /\ UNCHANGED <<currentTaskId, pollTaskTimer, pollBlocksTimer, blocksLoaded,
                   blocksCache, intervals, timeouts, net, server, fin>>


\* ------------------------------------------------------------------ history variables
FinReset == [seen |-> FALSE, fetches |-> 0, polls |-> 0, err |-> FALSE, applied |-> FALSE]

\* A save is no restart of the polling: it keeps what is known of an observed error.
FinSave == [FinReset EXCEPT !.err = fin.err]

\* One more block-list fetch sent since 'finished' was observed (counted to 2).
FinFetch == IF fin.seen /\ fin.fetches < 2 THEN [fin EXCEPT !.fetches = @ + 1] ELSE fin

\* One more status poll sent since 'finished' was observed.
FinPoll == IF fin.seen THEN [fin EXCEPT !.polls = 1] ELSE fin

\* ------------------------------------------------------------------ requests
\* apiGet(`/api/tasks/${currentTaskId}`): the backend answers with the task's status.
StatusRequest(error, progress) ==
    [Msg("status", currentTaskId, 0, error, FALSE, "tick", server[currentTaskId].status,
         <<>>, TRUE) EXCEPT !.progress = progress]

\* apiGet(`/api/tasks/${currentTaskId}/blocks?offset=0&limit=5000`) of refreshBlocks:
\* the backend answers with the task's whole block list.
BlocksRequest(keepSelection, origin) ==
    Msg("blocks", currentTaskId, 0, "", keepSelection, origin, "",
        server[currentTaskId].blocks, TRUE)

\* ------------------------------------------------------------------ timers
\* The 1 s interval of startPolling, up to its await; the response will carry one
\* of the given progress values.
TaskTickFrom(inputs) ==
    /\ intervals.task > 0
    /\ currentTaskId # 0
    /\ BagCardinality(net) < MaxInflight
    /\ timeouts + InFlight("status") < MaxTimeouts
    /\ \E e \in ErrorInputs, p \in inputs :
          /\ e # "" => server[currentTaskId].status = "error"
          /\ net' = Send(StatusRequest(e, p))
    /\ fin' = FinPoll
    /\ UNCHANGED <<client, server, dirty, clicks>>

TaskTick == TaskTickFrom(ProgressInputs)

\* The 2.5 s interval of startPolling, up to the await inside refreshBlocks(true).
BlocksTick ==
    /\ intervals.blocks > 0
    /\ currentTaskId # 0
    /\ blocksLoaded
    /\ BagCardinality(net) < MaxInflight
    /\ net' = Send(BlocksRequest(TRUE, "tick"))
    /\ fin' = FinFetch
    /\ UNCHANGED <<client, server, dirty, clicks>>

\* setTimeout(() => refreshBlocks(false).catch(() => {}), 300) fires.
FinalRefresh ==
    /\ timeouts > 0
    /\ BagCardinality(net) < MaxInflight
    /\ timeouts' = timeouts - 1
    /\ net' = IF currentTaskId # 0 THEN Send(BlocksRequest(FALSE, "final")) ELSE net
    /\ fin' = IF currentTaskId # 0 THEN FinFetch ELSE fin
    /\ UNCHANGED <<currentTaskId, currentBlockId, pollTaskTimer, pollBlocksTimer,
                   blocksLoaded, blocksCache, dom, intervals, server, dirty, clicks>>

\* ------------------------------------------------------------------ responses
\* Mutant: only 'finished' stops the polling.
statusTimersFinishedOnly(T, status) ==
    IF status = "finished" THEN stopPolling(T) ELSE T

\* The task tick after its await: lines 80-91.
statusTimers(T, status) ==
    LET T1 == IF status = "finished" THEN stopPolling(T) ELSE T
    IN  IF status = "error" THEN stopPolling(T1) ELSE T1

statusDom(d, p, status, error) ==
    LET d1 == setProgress(d, OrZero(p), status)
    IN  IF error # "" THEN setText(d1, "progressHint", <<"Error:", error>>) ELSE d1

StatusApply(m) ==
    /\ m.kind = "status"
    /\ dom' = statusDom(dom, m.progress, m.status, m.text)
    /\ SetTimers(statusTimers(Timers, m.status))
    /\ timeouts' = IF m.status = "finished" THEN timeouts + 1 ELSE timeouts
    /\ net' = Take(m)
    /\ fin' = IF m.status = "finished" /\ m.task = currentTaskId /\ ~fin.seen
              THEN [fin EXCEPT !.seen = TRUE, !.fetches = 0, !.polls = 0]
              ELSE IF m.status = "error" /\ m.task = currentTaskId
                   THEN [fin EXCEPT !.err = TRUE]
                   ELSE fin
    /\ UNCHANGED <<currentTaskId, currentBlockId, blocksLoaded, blocksCache, server, dirty, clicks>>

\* The task tick's catch: a failed fetch is ignored.
StatusFail(m) ==
    /\ m.kind = "status"
    /\ net' = Take(m)
    /\ UNCHANGED <<client, server, dirty, fin, clicks>>

\* Mutant: the fetched list is dropped once a list is cached.
refreshCacheStale(cache, blocks) == IF cache = <<>> THEN blocks ELSE cache

\* Mutant: an incremental merge that keeps the entries already cached after the first.
refreshCacheMerge(cache, blocks) ==
    IF Len(cache) = Len(blocks)
    THEN [k \in 1..Len(blocks) |-> IF k = 1 THEN blocks[k] ELSE cache[k]]
    ELSE blocks

\* blocksCache = blocks: line 113.
refreshCache(cache, blocks) == blocks

\* Mutant: the isEditing test is missing.
OverwritesNoFocus(blocks, keepSelection, selected, active) ==
    /\ keepSelection
    /\ selected # 0
    /\ FindIndex(blocks, selected) # 0

\* Whether refreshBlocks overwrites the text inputs: lines 141-146.
Overwrites(blocks, keepSelection, selected, active) ==
    /\ keepSelection
    /\ selected # 0
    /\ active # "dstText"
    /\ FindIndex(blocks, selected) # 0

\* refreshBlocks after its await, on the page: lines 116-151.
refreshBlocks(d, blocks, keepSelection, selected) ==
    LET d1 == setText(d, "progressCounts", <<DoneCount(blocks), Len(blocks)>>)
        d2 == [d1 EXCEPT !.blockList = blocks]
    IN  IF Overwrites(blocks, keepSelection, selected, d.active)
        THEN LET b == blocks[FindIndex(blocks, selected)]
             IN  [d2 EXCEPT !.srcText = OrEmpty(b.source_text),
                            !.dstText = OrEmpty(b.translated_text)]
        ELSE d2

\* What follows `await refreshBlocks(...)` in the caller: lines 230-232.
afterRefreshDom(d, origin, blocks) ==
    IF origin = "load" THEN setText(d, "blockHint", <<"Loaded blocks:", Len(blocks)>>) ELSE d

afterRefreshTimers(T, origin) ==
    IF origin = "load" THEN startPolling(T) ELSE T

BlocksApply(m) ==
    /\ m.kind = "blocks"
    /\ blocksCache' = refreshCache(blocksCache, m.body)
    /\ dom' = afterRefreshDom(refreshBlocks(dom, m.body, m.keep, currentBlockId),
                              m.origin, m.body)
    /\ SetTimers(afterRefreshTimers(Timers, m.origin))
    /\ net' = Take(m)
    /\ dirty' = IF Overwrites(m.body, m.keep, currentBlockId, dom.active)
                THEN FALSE ELSE dirty
    /\ fin' = IF m.origin = "load"
              THEN FinReset
              ELSE IF m.origin = "final" /\ fin.seen
                   THEN [fin EXCEPT !.applied = TRUE]
                   ELSE fin
    /\ UNCHANGED <<currentTaskId, currentBlockId, blocksLoaded, timeouts, server, clicks>>

\* Mutant: every caller shows the message.
refreshFailedDomShown(d, origin) == setText(d, "blockHint", <<"msg", 0>>)

\* apiGet throws inside refreshBlocks: the tick and the delayed refresh ignore it,
\* loadBlocks and saveBlock show the message.
refreshFailedDom(d, origin) ==
    IF origin \in {"load", "save"} THEN setText(d, "blockHint", <<"msg", 0>>) ELSE d

BlocksFail(m) ==
    /\ m.kind = "blocks"
    /\ dom' = refreshFailedDom(dom, m.origin)
    /\ net' = Take(m)
    /\ UNCHANGED <<currentTaskId, currentBlockId, pollTaskTimer, pollBlocksTimer,
                   blocksLoaded, blocksCache, intervals, timeouts, server, dirty, fin, clicks>>


\* ------------------------------------------------------------------ createTask
\* "reset UI state": lines 186-192 on the page.
resetDom(d) ==
    setProgress(
        setText(setText(setText(
            [d EXCEPT !.blockList = <<>>, !.srcText = "", !.dstText = ""],
            "blockHint", <<>>), "progressHint", <<>>), "progressCounts", <<>>),
        Num(0), "created")

\* createTask.onclick with no file chosen: only the message.
CreateTaskNoFile ==
    /\ Click
    /\ dom' = setText(dom, "taskHint", <<"msg", 0>>)
    /\ UNCHANGED <<currentTaskId, currentBlockId, pollTaskTimer, pollBlocksTimer,
                   blocksLoaded, blocksCache, intervals, timeouts, net, server, dirty, fin>>

\* createTask.onclick up to `await fetch(POST /api/tasks)`: lines 177-198.  The
\* backend either creates the task or rejects the upload.
CreateTaskClick ==
    /\ Click
    /\ BagCardinality(net) < MaxInflight
    /\ SetTimers(stopPolling(Timers))
    /\ blocksLoaded' = FALSE
    /\ blocksCache' = <<>>
    /\ currentBlockId' = 0
    /\ dom' = resetDom(dom)
    /\ \E accepted \in BOOLEAN :
          IF accepted
          THEN /\ Len(server) < MaxTasks
               /\ server' = Append(server, [status |-> "created",
                                            blocks |-> NewBlocks(Len(server) + 1)])
               /\ net' = Send(Msg("create", Len(server) + 1, 0, "", FALSE, "click",
                                         "", <<>>, TRUE))
          ELSE /\ server' = server
               /\ net' = Send(Msg("create", 0, 0, "", FALSE, "click", "", <<>>, FALSE))
    /\ dirty' = FALSE
    /\ fin' = FinReset
    /\ UNCHANGED <<currentTaskId, timeouts>>

\* createTask.onclick after the POST succeeded: lines 200-206.
CreateApply(m) ==
    /\ m.kind = "create"
    /\ m.ok
    /\ currentTaskId' = m.task
    /\ dom' = setText(dom, "taskHint", <<"Task created:", m.task>>)
    /\ SetTimers(startPolling(Timers))
    /\ net' = Take(m)
    /\ fin' = FinReset
    /\ UNCHANGED <<currentBlockId, blocksLoaded, blocksCache, timeouts, server, dirty, clicks>>

\* createTask.onclick's catch: line 208.
CreateFail(m) ==
    /\ m.kind = "create"
    /\ dom' = setText(dom, "taskHint", <<"msg", 0>>)
    /\ net' = Take(m)
    /\ UNCHANGED <<currentTaskId, currentBlockId, pollTaskTimer, pollBlocksTimer,
                   blocksLoaded, blocksCache, intervals, timeouts, server, dirty, fin, clicks>>

\* ------------------------------------------------------------------ runTranslate
RunTranslateNoTask ==
    /\ Click
    /\ NoTask(currentTaskId)
    /\ dom' = setText(dom, "progressHint", <<"msg", "">>)
    /\ UNCHANGED <<currentTaskId, currentBlockId, pollTaskTimer, pollBlocksTimer,
                   blocksLoaded, blocksCache, intervals, timeouts, net, server, dirty, fin>>

\* runTranslate.onclick up to its await: the backend starts a created task.
RunTranslateClick ==
    /\ Click
    /\ ~NoTask(currentTaskId)
    /\ BagCardinality(net) < MaxInflight
    /\ net' = Send(Msg("run", currentTaskId, 0, "", FALSE, "click", "", <<>>, TRUE))
    /\ server' = IF server[currentTaskId].status = "created"
                 THEN [server EXCEPT ![currentTaskId].status = "running"]
                 ELSE server
    /\ fin' = FinReset
    /\ UNCHANGED <<client, dirty>>

RunApply(m) ==
    /\ m.kind = "run"
    /\ dom' = setText(dom, "progressHint", <<"json", "">>)
    /\ SetTimers(startPolling(Timers))
    /\ net' = Take(m)
    /\ fin' = FinReset
    /\ UNCHANGED <<currentTaskId, currentBlockId, blocksLoaded, blocksCache, timeouts,
                   server, dirty, clicks>>

RunFail(m) ==
    /\ m.kind = "run"
    /\ dom' = setText(dom, "progressHint", <<"msg", "">>)
    /\ net' = Take(m)
    /\ UNCHANGED <<currentTaskId, currentBlockId, pollTaskTimer, pollBlocksTimer,
                   blocksLoaded, blocksCache, intervals, timeouts, server, dirty, fin, clicks>>

\* ------------------------------------------------------------------ loadBlocks
LoadBlocksNoTask ==
    /\ Click
    /\ NoTask(currentTaskId)
    /\ dom' = setText(dom, "blockHint", <<"msg", 0>>)
    /\ UNCHANGED <<currentTaskId, currentBlockId, pollTaskTimer, pollBlocksTimer,
                   blocksLoaded, blocksCache, intervals, timeouts, net, server, dirty, fin>>

\* loadBlocks.onclick up to the await inside refreshBlocks(false): lines 227-229.
LoadBlocksClick ==
    /\ Click
    /\ ~NoTask(currentTaskId)
    /\ BagCardinality(net) < MaxInflight
    /\ blocksLoaded' = TRUE
    /\ net' = Send(BlocksRequest(FALSE, "load"))
    /\ fin' = FinReset
    /\ UNCHANGED <<currentTaskId, currentBlockId, pollTaskTimer, pollBlocksTimer,
                   blocksCache, dom, intervals, timeouts, server, dirty>>

\* ------------------------------------------------------------------ saveBlock
SaveBlockNoSelection ==
    /\ Click
    /\ NoSelection(currentTaskId, currentBlockId)
    /\ dom' = setText(dom, "blockHint", <<"msg", 0>>)
    /\ UNCHANGED <<currentTaskId, currentBlockId, pollTaskTimer, pollBlocksTimer,
                   blocksLoaded, blocksCache, intervals, timeouts, net, server, dirty, fin>>

\* apiPatchJson(`/api/tasks/${currentTaskId}/blocks/${currentBlockId}`, {translated_text})
PatchRequest(translated_text) ==
    Msg("patch", currentTaskId, currentBlockId, translated_text, FALSE, "click", "", <<>>,
        HasBlock(currentTaskId, currentBlockId))

\* History: an earlier save of the same block, still waiting for its PATCH or for
\* its refresh to return, is no longer the latest save of that block.
Supersede(x) ==
    IF /\ x.block = currentBlockId
       /\ \/ x.kind = "patch" /\ x.task = currentTaskId
          \/ x.kind = "blocks" /\ x.origin = "save" /\ x.savedTask = currentTaskId
    THEN [x EXCEPT !.latest = FALSE]
    ELSE x

\* saveBlock.onclick up to its await: lines 240-242.
SaveBlockClick ==
    /\ Click
    /\ ~NoSelection(currentTaskId, currentBlockId)
    /\ BagCardinality(net) < MaxInflight
    /\ net' = BagOfAll(Supersede, net) (+) SetToBag({PatchRequest(dom.dstText)})
    /\ server' = IF HasBlock(currentTaskId, currentBlockId)
                 THEN [server EXCEPT ![currentTaskId].blocks =
                          PatchBlocks(@, currentBlockId, dom.dstText)]
                 ELSE server
    /\ dirty' = FALSE
    /\ fin' = FinSave
    /\ UNCHANGED client

\* The refresh of line 246; it remembers which save it belongs to.
SaveRefresh(m) ==
    [BlocksRequest(TRUE, "save") EXCEPT !.block = m.block, !.text = m.text,
                                        !.savedTask = m.task, !.latest = m.latest]

\* saveBlock.onclick after the PATCH succeeded: lines 243-246.
PatchApply(m) ==
    /\ m.kind = "patch"
    /\ m.ok
    /\ dom' = setText(dom, "blockHint", <<"json", 0>>)
    /\ net' = IF blocksLoaded /\ currentTaskId # 0
              THEN Take(m) (+) SetToBag({SaveRefresh(m)})
              ELSE Take(m)
    /\ fin' = FinSave
    /\ UNCHANGED <<currentTaskId, currentBlockId, pollTaskTimer, pollBlocksTimer,
                   blocksLoaded, blocksCache, intervals, timeouts, server, dirty, clicks>>

PatchFail(m) ==
    /\ m.kind = "patch"
    /\ dom' = setText(dom, "blockHint", <<"msg", 0>>)
    /\ net' = Take(m)
    /\ UNCHANGED <<currentTaskId, currentBlockId, pollTaskTimer, pollBlocksTimer,
                   blocksLoaded, blocksCache, intervals, timeouts, server, dirty, fin, clicks>>

\* ------------------------------------------------------------------ exportDocx
ExportDocxNoTask ==
    /\ Click
    /\ NoTask(currentTaskId)
    /\ dom' = setText(dom, "progressHint", <<"msg", "">>)
    /\ UNCHANGED <<currentTaskId, currentBlockId, pollTaskTimer, pollBlocksTimer,
                   blocksLoaded, blocksCache, intervals, timeouts, net, server, dirty, fin>>

\* exportDocx.onclick up to `await fetch(.../export)`: lines 254-256.
ExportDocxClick ==
    /\ Click
    /\ ~NoTask(currentTaskId)
    /\ BagCardinality(net) < MaxInflight
    /\ net' = Send(Msg("export", currentTaskId, 0, "", FALSE, "click", "", <<>>, TRUE))
    /\ UNCHANGED <<client, server, dirty, fin>>

\* exportDocx.onclick after its await: the download starts, lines 259-266.
ExportApply(m) ==
    /\ m.kind = "export"
    /\ dom' = setText(dom, "progressHint", <<"Download started:", "translated.docx">>)
    /\ net' = Take(m)
    /\ UNCHANGED <<currentTaskId, currentBlockId, pollTaskTimer, pollBlocksTimer,
                   blocksLoaded, blocksCache, intervals, timeouts, server, dirty, fin, clicks>>

\* exportDocx.onclick's catch: line 268.
ExportFail(m) ==
    /\ m.kind = "export"
    /\ dom' = setText(dom, "progressHint", <<"msg", "">>)
    /\ net' = Take(m)
    /\ UNCHANGED <<currentTaskId, currentBlockId, pollTaskTimer, pollBlocksTimer,
                   blocksLoaded, blocksCache, intervals, timeouts, server, dirty, fin, clicks>>

\* ------------------------------------------------------------------ specification
\* The page once main() has run: setProgress(0, "") and nothing else of the engine.
StartDom ==
    [blockList |-> <<>>, srcText |-> "", dstText |-> "", active |-> "other",
     progressBar |-> 0, progressPct |-> 0, progressStatus |-> <<>>,
     progressHint |-> <<>>, progressCounts |-> <<>>, blockHint |-> <<>>,
     taskHint |-> <<>>]

Start(session) ==
    /\ currentTaskId = 0
    /\ currentBlockId = 0
    /\ pollTaskTimer = 0
    /\ pollBlocksTimer = 0
    /\ blocksLoaded = FALSE
    /\ blocksCache = <<>>
    /\ dom = StartDom
    /\ intervals = [task |-> 0, blocks |-> 0]
    /\ timeouts = 0
    /\ net = EmptyBag
    /\ server = <<>>
    /\ dirty = FALSE
    /\ fin = FinReset
    /\ clicks = session

Init == Start(MaxClicks)

InitLong == Start(MaxClicksLong)

Deliver ==
    \E m \in BagToSet(net) :
        \/ StatusApply(m)
        \/ StatusFail(m)
        \/ BlocksApply(m)
        \/ BlocksFail(m)
        \/ CreateApply(m)
        \/ CreateFail(m)
        \/ RunApply(m)
        \/ RunFail(m)
        \/ PatchApply(m)
        \/ PatchFail(m)
        \/ ExportApply(m)
        \/ ExportFail(m)

User ==
    \/ FocusDst
    \/ BlurDst
    \/ TypeDst
    \/ ItemClick
    \/ CreateTaskNoFile
    \/ CreateTaskClick
    \/ RunTranslateNoTask
    \/ RunTranslateClick
    \/ LoadBlocksNoTask
    \/ LoadBlocksClick
    \/ SaveBlockNoSelection
    \/ SaveBlockClick
    \/ ExportDocxNoTask
    \/ ExportDocxClick

Next ==
    \/ User
    \/ TaskTick
    \/ BlocksTick
    \/ FinalRefresh
    \/ Deliver
    \/ SrvTranslate
    \/ SrvFinish
    \/ SrvError

Spec == Init /\ [][Next]_vars

\* The same program in sessions one click longer.
SpecLong == InitLong /\ [][Next]_vars

\* A session that only polls: the user has created a task and started its
\* translation (createTask, then runTranslate, both answered) and clicks no more;
\* the task keeps running and its status responses carry any progress value.
InitProgress ==
    /\ currentTaskId = 1
    /\ currentBlockId = 0
    /\ pollTaskTimer = 1
    /\ pollBlocksTimer = 1
    /\ blocksLoaded = FALSE
    /\ blocksCache = <<>>
    /\ dom = setText(setText(resetDom(StartDom), "taskHint", <<"Task created:", 1>>),
                     "progressHint", <<"json", "">>)
    /\ intervals = [task |-> 1, blocks |-> 1]
    /\ timeouts = 0
    /\ net = EmptyBag
    /\ server = <<[status |-> "running", blocks |-> NewBlocks(1)]>>
    /\ dirty = FALSE
    /\ fin = FinReset
    /\ clicks = 0

NextProgress ==
    \/ TaskTickFrom(ProgressValues)
    \/ \E m \in BagToSet(net) : StatusApply(m)
    \/ \E m \in BagToSet(net) : StatusFail(m)

SpecProgress == InitProgress /\ [][NextProgress]_vars

\* A session in which the user acts no more: a task was created, then runTranslate
\* and loadBlocks were clicked and their requests are still in flight.
InitIdle ==
    /\ currentTaskId = 1
    /\ currentBlockId = 0
    /\ pollTaskTimer = 1
    /\ pollBlocksTimer = 1
    /\ blocksLoaded = TRUE
    /\ blocksCache = <<>>
    /\ dom = setText(resetDom(StartDom), "taskHint", <<"Task created:", 1>>)
    /\ intervals = [task |-> 1, blocks |-> 1]
    /\ timeouts = 0
    /\ server = <<[status |-> "running", blocks |-> NewBlocks(1)]>>
    /\ net = SetToBag({Msg("run", 1, 0, "", FALSE, "click", "", <<>>, TRUE),
                       BlocksRequest(FALSE, "load")})
    /\ dirty = FALSE
    /\ fin = FinReset
    /\ clicks = 0

\* A status poll's fetch succeeds.
StatusArrives == \E m \in BagToSet(net) : StatusApply(m)

\* A pending fetch settles, one way or the other.
Settle ==
    \E m \in BagToSet(net) :
        \/ StatusApply(m)
        \/ StatusFail(m)
        \/ BlocksApply(m)
        \/ BlocksFail(m)
        \/ RunApply(m)
        \/ RunFail(m)

NextIdle ==
    \/ TaskTick
    \/ BlocksTick
    \/ FinalRefresh
    \/ Settle
    \/ SrvTranslate
    \/ SrvFinish
    \/ SrvError

\* The intervals and the timeout fire, every fetch settles, and status fetches
\* succeed again and again.
SpecIdle ==
    /\ InitIdle
    /\ [][NextIdle]_vars
    /\ SF_vars(TaskTick)
    /\ SF_vars(FinalRefresh)
    /\ WF_vars(Settle)
    /\ SF_vars(StatusArrives)


\* ================================================================== claims
\* The entry of a block list with a given id (ids are unique in a backend list).
Entries(blocks, id) == {k \in 1..Len(blocks) : blocks[k].id = id}

\* The text an input shows for a text field of a block.
Shown(v) == IF v = NULLTEXT THEN "" ELSE v

\* A step that sends a GET of a block list.
BlocksSent(x) == x.kind = "blocks" /\ CopiesIn(x, net') > CopiesIn(x, net)

\* C1: a refresh whose snapshot is applied while dstText has the focus leaves
\* srcText and dstText as they were, whoever called refreshBlocks and whatever
\* the snapshot holds; being a property of every step, it holds for any number
\* of refreshes in a row.
C1_FocusedRefreshKeepsText ==
    [][\A m \in BagToSet(net) :
          (BlocksApply(m) /\ dom.active = "dstText")
          => (dom'.dstText = dom.dstText /\ dom'.srcText = dom.srcText)]_vars

\* C1 witness: dstText has the focus while a keepSelection refresh is in flight
\* whose snapshot holds another text for the selected block.
C1_Witness ==
    /\ dom.active = "dstText"
    /\ currentBlockId # 0
    /\ \E m \in BagToSet(net) :
          /\ m.kind = "blocks"
          /\ m.keep
          /\ \E k \in Entries(m.body, currentBlockId) :
                Shown(m.body[k].translated_text) # dom.dstText

\* C2 (as claimed): once a new task is current, a response to a request sent for
\* another task id changes neither the cache, the list, the count, the progress
\* display nor the text inputs.
C2_NoUpdateFromOldTask ==
    [][\A m \in BagToSet(net) :
          ((StatusApply(m) \/ BlocksApply(m)) /\ m.task # currentTaskId)
          => /\ blocksCache' = blocksCache
             /\ dom'.blockList = dom.blockList
             /\ dom'.progressCounts = dom.progressCounts
             /\ dom'.progressBar = dom.progressBar
             /\ dom'.progressStatus = dom.progressStatus
             /\ dom'.srcText = dom.srcText
             /\ dom'.dstText = dom.dstText]_vars

\* C3 (as claimed): after a status poll has observed 'finished' for the current
\* task, and with no click since, at most one more block list is fetched and no
\* status poll is sent.
C3_OneFinalRefresh == fin.seen => (fin.fetches <= 1 /\ fin.polls = 0)

\* C4 (as claimed): a block poll tick never changes a dstText that holds an
\* unsaved edit, focused or not.
C4_TickKeepsUnsavedEdit ==
    [][\A m \in BagToSet(net) :
          (BlocksApply(m) /\ m.origin = "tick" /\ dirty)
          => dom'.dstText = dom.dstText]_vars

\* C5: a keepSelection refresh applied while dstText does not have the focus,
\* with a block selected that the snapshot lists, shows exactly the snapshot's
\* source_text and translated_text of that block, "" for null.
C5_UnfocusedRefreshShowsSnapshot ==
    [][\A m \in BagToSet(net) :
          (BlocksApply(m) /\ m.keep /\ currentBlockId # 0 /\ dom.active # "dstText")
          => \A k \in Entries(m.body, currentBlockId) :
                /\ dom'.srcText = Shown(m.body[k].source_text)
                /\ dom'.dstText = Shown(m.body[k].translated_text)]_vars

\* C5 witness: the second block of a list is selected, dstText is not focused and
\* a keepSelection refresh is in flight whose snapshot holds another text for it.
C5_Witness ==
    /\ dom.active # "dstText"
    /\ currentBlockId # 0
    /\ \E m \in BagToSet(net) :
          /\ m.kind = "blocks"
          /\ m.keep
          /\ \E k \in Entries(m.body, currentBlockId) :
                /\ k > 1
                /\ Shown(m.body[k].translated_text) # dom.dstText

\* The cache lists the saved block as 'edited' with the text that was sent.
ShowsSave(cache, m) ==
    \E k \in Entries(cache, m.block) :
        cache[k].status = "edited" /\ cache[k].translated_text = m.text

C7_FetchOnlyWhenLoaded ==
    [][\A x \in BagToSet(net') :
          BlocksSent(x) => (blocksLoaded' /\ currentTaskId' # 0)]_vars

NoDupIds(blocks) ==
    \A i, j \in 1..Len(blocks) : blocks[i].id = blocks[j].id => i = j

\* C8: the cache only ever changes to the empty list or to the whole body of one
\* response, a response body is the backend's whole list of one task, and the
\* cache never holds an id twice.
C8_CacheIsOneSnapshot ==
    [][/\ blocksCache' # blocksCache
          => \/ blocksCache' = <<>>
             \/ \E m \in BagToSet(net) : m.kind = "blocks" /\ blocksCache' = m.body
       /\ \A x \in BagToSet(net') : BlocksSent(x) => x.body = server[x.task].blocks
       /\ NoDupIds(blocksCache')]_vars

\* C8 witness: a save has reached the backend and the cache, not patched locally,
\* still holds the list fetched before it.
C8_Witness ==
    /\ Len(blocksCache) > 1
    /\ \E m \in BagToSet(net) :
          /\ m.kind = "patch"
          /\ m.ok
          /\ m.task = currentTaskId
          /\ ~ShowsSave(blocksCache, m)
          /\ ShowsSave(server[m.task].blocks, m)

PollingOff ==
    /\ pollTaskTimer = 0
    /\ pollBlocksTimer = 0
    /\ intervals = [task |-> 0, blocks |-> 0]

\* A step of the handlers that start the polling: createTask, runTranslate, loadBlocks.
UserStartsPolling ==
    \E m \in BagToSet(net) :
        \/ CreateApply(m)
        \/ RunApply(m)
        \/ BlocksApply(m) /\ m.origin = "load"

\* C9 (as claimed): a status response of 'error' clears both timers and shows the
\* error text it carries, and once 'error' has been observed for the current task
\* no step arms a timer that fetches (the intervals stay off and no delayed
\* refresh is scheduled) other than the handlers of createTask, runTranslate and
\* loadBlocks.
C9_ErrorStopsPolling ==
    [][/\ \A m \in BagToSet(net) :
             (StatusApply(m) /\ m.status = "error")
             => /\ PollingOff'
                /\ m.text # "" => dom'.progressHint = <<"Error:", m.text>>
       /\ (fin.err /\ ~UserStartsPolling) => (PollingOff' /\ timeouts' <= timeouts)]_vars

\* C10: a failed fetch of a poll tick changes nothing on the page and leaves
\* both timers as they were.
C10_FailedTickChangesNothing ==
    [][\A m \in BagToSet(net) :
          (StatusFail(m) \/ (BlocksFail(m) /\ m.origin = "tick"))
          => UNCHANGED <<currentTaskId, currentBlockId, pollTaskTimer, pollBlocksTimer,
                         blocksLoaded, blocksCache, dom, intervals, timeouts>>]_vars

\* C10 witness: a block poll is in flight with both timers live and a block selected.
C10_Witness ==
    /\ intervals.task > 0
    /\ intervals.blocks > 0
    /\ currentBlockId # 0
    /\ \E m \in BagToSet(net) : m.kind = "blocks" /\ m.origin = "tick"

\* A step that sends nothing and leaves the task id, the selection, the cache,
\* blocksLoaded and the timers as they were.
NothingAttempted ==
    /\ net' = net
    /\ UNCHANGED <<currentTaskId, currentBlockId, blocksCache, blocksLoaded,
                   pollTaskTimer, pollBlocksTimer, intervals>>

\* C11: a click on runTranslate, loadBlocks or exportDocx with no current task,
\* or on saveBlock with no current task or no selected block, shows a message
\* in the handler's hint and does nothing else: no request, and the task id,
\* selection, cache, blocksLoaded and timers are unchanged.
C11_PreconditionErrorsSendNothing ==
    [][/\ (currentTaskId = 0 /\ (RunTranslateNoTask \/ RunTranslateClick
                                    \/ ExportDocxNoTask \/ ExportDocxClick))
          => (NothingAttempted /\ dom'.progressHint = <<"msg", "">>)
       /\ (currentTaskId = 0 /\ (LoadBlocksNoTask \/ LoadBlocksClick))
          => (NothingAttempted /\ dom'.blockHint = <<"msg", 0>>)
       /\ ((currentTaskId = 0 \/ currentBlockId = 0)
             /\ (SaveBlockNoSelection \/ SaveBlockClick))
          => (NothingAttempted /\ dom'.blockHint = <<"msg", 0>>)]_vars

\* C11 witness: a task exists but no block is selected, saveBlock's message is
\* shown, and nothing was sent or loaded.
C11_Witness ==
    /\ currentTaskId # 0
    /\ currentBlockId = 0
    /\ dom.blockHint = <<"msg", 0>>
    /\ dom.taskHint = <<"Task created:", currentTaskId>>
    /\ ~blocksLoaded
    /\ net = EmptyBag
    /\ clicks = MaxClicks - 2

\* clamp(p, 0, 1) of a finite number, in thousandths.
ClampedFraction(n) == IF n <= 0 THEN 0 ELSE IF n >= 1000 THEN 1000 ELSE n

\* C12: when a status response is applied, the displayed fraction is 0 for a
\* progress below 0, 1 for a progress above 1 and the progress itself in
\* between, and 0 when the progress is missing (null, undefined) or is not a
\* finite number (NaN, Infinity, -Infinity).
C12_ProgressIsClamped ==
    [][\A m \in BagToSet(net) :
          StatusApply(m)
          => dom'.progressBar = IF m.progress.t = "number"
                                THEN ClampedFraction(m.progress.v)
                                ELSE 0]_vars

\* C12 witness: the bar shows a fraction strictly between 0 and 1 while responses
\* are in flight that carry a progress above 1 and a progress that is no number.
C12_Witness ==
    /\ dom.progressBar = 499
    /\ \E m \in BagToSet(net) : m.progress.t = "number" /\ m.progress.v > 1000
    /\ \E m \in BagToSet(net) : m.progress.t # "number"

\* The count the page should show for a list: <<done, total>>.
CountOf(blocks) ==
    <<Cardinality({k \in 1..Len(blocks) :
                      blocks[k].status = "translated" \/ blocks[k].status = "edited"}),
      Len(blocks)>>

\* C13: in every state the completion count is blank with an empty cache (before
\* any refresh and after a new-task reset) or reads done / total of the cache;
\* the reset of createTask blanks it, and a refresh stores the fetched list in its
\* order and shows that list's count, 0 / total when every block is pending.
C13_CountMatchesCache ==
    /\ dom.progressCounts = <<>> /\ blocksCache = <<>>
    /\ [][/\ IF blocksCache' = <<>>
             THEN dom'.progressCounts = <<>>
             ELSE dom'.progressCounts = CountOf(blocksCache')
          /\ CreateTaskClick => (blocksCache' = <<>> /\ dom'.progressCounts = <<>>)
          /\ \A m \in BagToSet(net) :
                BlocksApply(m)
                => /\ blocksCache' = m.body
                   /\ dom'.progressCounts = CountOf(m.body)
                   /\ (\A k \in 1..Len(m.body) : m.body[k].status = "pending")
                      => dom'.progressCounts = <<0, Len(m.body)>>]_vars

\* C13 witness: the cache holds an edited block and a pending one, and the count
\* reads 1 / 2.
C13_Witness ==
    /\ Len(blocksCache) = BlocksPerTask
    /\ \E k \in 1..Len(blocksCache) : blocksCache[k].status = "edited"
    /\ \E k \in 1..Len(blocksCache) : blocksCache[k].status = "pending"
    /\ dom.progressCounts = <<1, BlocksPerTask>>

\* C14 (as claimed): once 'finished' has been observed for the current task, a
\* delayed final refresh has been applied, nothing is in flight or scheduled any
\* more and the user has not clicked since, the cache is the backend's block list
\* of the current task.
C14_FinalRefreshCapturesFinalState ==
    (/\ fin.seen
     /\ fin.applied
     /\ net = EmptyBag
     /\ timeouts = 0
     /\ server[currentTaskId].status = "finished")
    => blocksCache = server[currentTaskId].blocks

\* C15: in every state at most one status interval and at most one block
\* interval are live, each live interval is the recorded one (none runs
\* unrecorded, none is recorded that is not live), and pollTaskTimer is null
\* exactly when pollBlocksTimer is.
C15_OneTimerOfEachKind ==
    /\ intervals.task \in {0, 1}
    /\ intervals.blocks \in {0, 1}
    /\ intervals.task = pollTaskTimer
    /\ intervals.blocks = pollBlocksTimer
    /\ (pollTaskTimer = 0) <=> (pollBlocksTimer = 0)

\* C15 witness: both intervals are live while the responses of runTranslate and
\* loadBlocks, each of which calls startPolling again, are in flight.
C15_Witness ==
    /\ intervals = [task |-> 1, blocks |-> 1]
    /\ \E m \in BagToSet(net) : m.kind = "run"
    /\ \E m \in BagToSet(net) : m.kind = "blocks" /\ m.origin = "load"

\* The backend has ended the current task.
Terminal == currentTaskId # 0 /\ server[currentTaskId].status \in {"finished", "error"}

\* C16: with the user acting no more and status fetches succeeding again and
\* again, once the current task is 'finished' or 'error' on the backend both
\* timers are eventually cleared and stay cleared.
C16_PollingTerminates == [](Terminal => <>[]PollingOff)

\* C16 witness: the task has failed, the error has been shown, the polling is off
\* and nothing is pending any more.
C16_Witness ==
    /\ Terminal
    /\ dom.progressStatus = <<"Status:", "error">>
    /\ PollingOff
    /\ net = EmptyBag
    /\ timeouts = 0

\* C17 (as claimed): a status response fetched for another task id than the
\* current one leaves the timers as they are and schedules no final refresh.
C17_StaleStatusKeepsPolling ==
    [][\A m \in BagToSet(net) :
          (StatusApply(m) /\ currentTaskId # 0 /\ m.task # currentTaskId)
          => /\ UNCHANGED <<pollTaskTimer, pollBlocksTimer, intervals>>
             /\ timeouts' = timeouts]_vars

\* C18: in every state the rendered list is the cache, item for item and in
\* order, and a click on an item selects the id of a cache entry and shows that
\* entry's source_text and translated_text, whatever dstText held before.
C18_ClickLoadsFromCache ==
    /\ dom.blockList = blocksCache
    /\ [][/\ dom'.blockList = blocksCache'
          /\ ItemClick
             => \E k \in 1..Len(blocksCache) :
                   /\ currentBlockId' = blocksCache[k].id
                   /\ dom'.srcText = Shown(blocksCache[k].source_text)
                   /\ dom'.dstText = Shown(blocksCache[k].translated_text)]_vars

\* C18 witness: dstText holds an unsaved edit that differs from the text of an
\* entry of the cache, and the user can still click on the list.
C18_Witness ==
    /\ dirty
    /\ clicks > 0
    /\ blocksCache # <<>>
    /\ \A k \in 1..Len(blocksCache) :
          Shown(blocksCache[k].translated_text) # dom.dstText

\* C19: whenever a block is selected it is a block of the current task, and every
\* PATCH in flight names a task together with a block of that task.
C19_SelectionBelongsToTask ==
    /\ currentBlockId # 0 => HasBlock(currentTaskId, currentBlockId)
    /\ \A m \in BagToSet(net) : m.kind = "patch" => HasBlock(m.task, m.block)

\* C20: when the upload of createTask fails, the message is shown in taskHint and
\* currentTaskId keeps its value; unless loadBlocks was clicked since the reset,
\* the cache, the rendered list, the selection and srcText are empty at that
\* moment; and the timers, once stopped, are started again only by a step of
\* createTask, runTranslate or loadBlocks.
C20_FailedUploadLeavesClearedSession ==
    [][/\ \A m \in BagToSet(net) :
             CreateFail(m)
             => /\ currentTaskId' = currentTaskId
                /\ dom'.taskHint = <<"msg", 0>>
                /\ ~blocksLoaded
                   => /\ blocksCache' = <<>>
                      /\ dom'.blockList = <<>>
                      /\ currentBlockId' = 0
                      /\ dom'.srcText = ""
       /\ (PollingOff /\ ~PollingOff') => UserStartsPolling]_vars

====
